---- MODULE Spec2Model ----
(***************************************************************************)
(* Model of the dashboard client of the ML benchmark platform.             *)
(*                                                                         *)
(* The sequential benchmark orchestrator (hooks/useBenchmark.ts) with its *)
(* caller BenchmarkForm and the HTTP helper utils/api.ts; the metrics     *)
(* store (hooks/useMetrics.ts) with its stream, its snapshot fetches, its *)
(* mounts and the backend it reads; the components that show summaries,   *)
(* the comparison table with its speedup badge, and the result cards.     *)
(*                                                                         *)
(* One action of the model is one task of the JavaScript event loop: a    *)
(* DOM event handler, or the continuation of run() after an await.  React *)
(* applies the setState calls of one task in order before anything else   *)
(* runs, so the task's net effect on the hook state is one atomic step.   *)
(***************************************************************************)
EXTENDS Integers, Sequences, FiniteSets, TLC

\* ------------------------------------------------------------------ bounds

\* How many run() calls may be waiting for a response at the same time.  The
\* number of run() calls over time is not bounded.
MaxPending == 2

\* ------------------------------------------------------------ program data

\* MODE_CONFIGS keys, in declaration order.
MODE_KEYS == <<"baseline", "quantized", "torchscript", "onnx", "batched">>

\* Array.from(selectedModes) as handleSubmit may pass it.  The form holds a
\* non-empty selection in insertion order; these four are the initial one and
\* three that toggleMode reaches from it (remove baseline; add torchscript; add
\* torchscript, then remove the other two).
Selections ==
  {<<"baseline", "quantized">>,
   <<"quantized">>,
   <<"baseline", "quantized", "torchscript">>,
   <<"torchscript">>}

\* Values of the form's text field, as sequences of characters: one blank, one
\* with text between blanks.
Texts == {<<" ">>, <<" ", "a", " ">>}

\* JavaScript null (activeMode: string | null).
NULL == "null"
\* JavaScript null for error: string | null.  Messages are token sequences and
\* every message the hook builds starts with "Failed on ", so the empty
\* sequence is free to stand for null.
NoError == <<>>

IsBlank(ch) == ch = " "

\* String.prototype.trim on a text held as a sequence of characters.
RECURSIVE TrimLeft(_)
TrimLeft(t) ==
  IF t = <<>> THEN <<>>
  ELSE IF IsBlank(Head(t)) THEN TrimLeft(Tail(t)) ELSE t

RECURSIVE TrimRight(_)
TrimRight(t) ==
  IF t = <<>> THEN <<>>
  ELSE IF IsBlank(t[Len(t)]) THEN TrimRight(SubSeq(t, 1, Len(t) - 1)) ELSE t

Trim(t) == TrimRight(TrimLeft(t))

\* ---------------------------------------------------------------- state

VARIABLES
  state,          \* useBenchmark's React state {loading, activeMode, results, error}
  runs,           \* the run() calls that have not returned, and the latest one:
                  \* each one's arguments and locals, by slot
  latest,         \* the slot of the most recently started run (0: none yet)
  outstanding,    \* inference requests sent and not yet answered
  undisturbed,    \* history: the latest run started with no other run pending, and
                  \* neither reset() nor run() has been called since
  lastOp,         \* history: the operation that produced this state
  prev            \* history: what was visible when that operation started

\* The state of useMetrics (hooks/useMetrics.ts): its six useState cells, and
\* what the model keeps beside them.
VARIABLES
  summaries,        \* Record<string, ModeSummary>
  comparison,       \* Record<string, ComparisonEntry>
  recentPoints,     \* RecentMetric[]
  totalInferences,  \* number
  connected,        \* boolean
  error,            \* string | null
  fetching,         \* how many getMetrics() calls are waiting for their response
  faulted,          \* an exception left a state updater: the render has failed
  arrived,          \* history: every `recent` array the handler merged, in order
  lastTransport,    \* history: the last open or error event of the EventSource
  metricsOp         \* history: the useMetrics operation that produced this state

\* The lifecycle of the component that calls useMetrics, and the EventSource
\* objects its effect creates.
VARIABLES
  mounted,          \* the component is mounted: its effects have run
  opened,           \* how many EventSource objects have been created so far
  sources,          \* the EventSource objects created and not closed
  esRef,            \* eventSourceRef.current (0: null)
  cleanupEs         \* `es` in the closure of the pending cleanup (0: none pending)

\* The state of BenchmarkForm that handleSubmit reads.
VARIABLES
  text,             \* the prompt field
  selectedModes,    \* Set<OptimizationMode>, in insertion order
  toggled           \* the last toggleMode call: its mode and the selection it
                    \* found (history; <<>>: none yet)

\* The components that show the summaries.
VARIABLES
  shown,            \* the summaries prop, with the statistics the components read
  display,          \* what StatsOverview, the charts and the table derive from it
  shownComparison,  \* the comparison prop of MetricsTable
  table,            \* the rows MetricsTable shows, each with its speedup badge
  resultModes,      \* the optimization_mode of each result ResultsDisplay is given
  cards             \* the label and color ResultsDisplay shows for each result

\* The backend as the metrics endpoints show it, and the responses on their way.
VARIABLES
  backend,          \* the backend's total: the inferences it has counted
  streamed,         \* the total in the last frame the stream has delivered
  responses         \* the totals in the snapshot responses served and not yet
                    \* delivered, in ascending order

\* How the setState calls of useMetrics reach the screen.
VARIABLES
  kinds,            \* the events handled so far, by kind; an event's number is
                    \* its position
  queue,            \* the setState calls made and not yet applied
  cells             \* per useState cell, the event whose value the last render
                    \* showed (0: the initial value)

orchVars == <<state, runs, latest, outstanding, undisturbed, lastOp, prev>>

metricsVars == <<summaries, comparison, recentPoints, totalInferences, connected,
                 error, fetching, faulted, arrived, lastTransport, metricsOp>>

lifeVars == <<mounted, opened, sources, esRef, cleanupEs>>

formVars == <<text, selectedModes, toggled>>

displayVars == <<shown, display, shownComparison, table, resultModes, cards>>

backendVars == <<backend, streamed, responses>>

renderVars == <<kinds, queue, cells>>

vars == <<orchVars, metricsVars, lifeVars, formVars, displayVars, backendVars,
         renderVars>>

\* What a step of the orchestrator leaves alone, and what a step of useMetrics
\* leaves alone: the state of the other hooks and components.
besideOrch == <<metricsVars, lifeVars, formVars, displayVars, backendVars,
    renderVars>>
besideMetrics == <<orchVars, lifeVars, formVars, displayVars, backendVars,
    renderVars>>
besideLife == <<orchVars, formVars, displayVars, backendVars,
    renderVars>>
besideForm == <<orchVars, metricsVars, lifeVars, displayVars, backendVars,
    renderVars>>
besideBackend == <<orchVars, lifeVars, formVars, displayVars,
    renderVars>>
besideRender == <<orchVars, metricsVars, lifeVars, formVars, displayVars,
    backendVars>>
besideDisplay == <<orchVars, metricsVars, lifeVars, formVars, backendVars,
    renderVars>>

Slots == 1..MaxPending

\* useState initial value, and the object reset() stores.
IdleState ==
  [loading |-> FALSE, activeMode |-> NULL, results |-> <<>>, error |-> NoError]

\* Mutant of StartedState: run() starts with setState((s) => ({ ...s, loading:
\* true, activeMode: null })), keeping what the previous run left.
StartedState_KeepsPrevious ==
  [state EXCEPT !.loading = TRUE, !.activeMode = NULL]

\* setState({ loading: true, activeMode: null, results: [], error: null })
StartedState ==
  [loading |-> TRUE, activeMode |-> NULL, results |-> <<>>, error |-> NoError]

\* What of a React state the history keeps: whether a run was shown as
\* running, and whether results and an error were shown.
Shown(s) ==
  [loading |-> s.loading,
   results |-> s.results # <<>>,
   error |-> s.error # NoError]

\* Mutant of SetActiveMode: the update is lost.
SetActiveMode_Lost(s, mode) == s

\* setState((s) => ({ ...s, activeMode: mode }))
SetActiveMode(s, mode) == [s EXCEPT !.activeMode = mode]

\* Mutant of SetResults: the new result is put in front of the published ones,
\* results: [res, ...s.results].
SetResults_Prepends(s, collected) ==
  [s EXCEPT !.results = <<collected[Len(collected)]>> \o @]

\* Mutant of SetResults: nothing is published while the run goes on.
SetResults_NotPublished(s, collected) == s

\* Mutant of SetResults: the new response is pushed onto the published list.
SetResults_Appends(s, collected) ==
  [s EXCEPT !.results = Append(@, collected[Len(collected)])]

\* setState((s) => ({ ...s, results: [...collected] }))
SetResults(s, collected) == [s EXCEPT !.results = collected]

\* `Failed on ${mode}: ${err.message}`
FailedMessage(mode, message) == <<"Failed on ", mode, ": ">> \o message

\* Mutant of SetFailed: the catch block stores a whole new state, without the
\* results collected so far.
SetFailed_DropsResults(s, mode, message) ==
  [loading |-> FALSE, activeMode |-> NULL, results |-> <<>>,
   error |-> <<"Failed on ", mode, ": ">> \o message]

\* Mutant of SetFailed: the catch block records the error and leaves loading
\* as it is.
SetFailed_KeepsLoading(s, mode, message) ==
  [s EXCEPT !.activeMode = NULL, !.error = FailedMessage(mode, message)]

\* setState((s) => ({ ...s, loading: false, activeMode: null, error: ... }))
SetFailed(s, mode, message) ==
  [s EXCEPT !.loading = FALSE, !.activeMode = NULL,
            !.error = FailedMessage(mode, message)]

\* Mutant of SetFinished: the closing setState leaves loading as it is.
SetFinished_KeepsLoading(s) == [s EXCEPT !.activeMode = NULL]

\* setState((s) => ({ ...s, loading: false, activeMode: null }))
SetFinished(s) == [s EXCEPT !.loading = FALSE, !.activeMode = NULL]

\* Mutant of InferenceRequest: max_new_tokens is left out of the request, and
\* the backend falls back on 30.
InferenceRequest_DefaultTokens(id, rec, i) ==
  [run |-> id, idx |-> i,
   text |-> rec.text,
   optimization_mode |-> rec.modes[i],
   model_size |-> rec.modelSize,
   max_new_tokens |-> 30]

\* The InferenceRequest the run in slot id builds for the mode at position i.
\* run and idx are not fields of the request: they identify the call that sent it.
InferenceRequest(id, rec, i) ==
  [run |-> id, idx |-> i,
   text |-> rec.text,
   optimization_mode |-> rec.modes[i],
   model_size |-> rec.modelSize,
   max_new_tokens |-> rec.maxNewTokens]

\* JSON.stringify(body) of runInference: the four fields of the request object,
\* with their values.
RequestBody(q) ==
  [text |-> q.text,
   optimization_mode |-> q.optimization_mode,
   model_size |-> q.model_size,
   max_new_tokens |-> q.max_new_tokens]

\* The InferenceResponse of the backend to request q.  The backend is opaque; req
\* stands for what makes one response differ from any other (its generated text
\* and its measurements).
InferenceResponse(q) ==
  [req |-> <<q.run, q.idx>>,
   optimization_mode |-> q.optimization_mode,
   model_size |-> q.model_size]

\* err.message of what request() throws: fetch rejecting (a transport failure), or
\* new Error(`API ${res.status}: ${body}`) for a response that is not ok.
TransportFailure == <<"Failed to fetch">>
ApiFailure(status, body) == <<"API ", status, ": ", body>>

Failures == {TransportFailure, ApiFailure("500", "Internal Server Error")}

\* The locals of a run() call as it starts: i is the position of the for loop,
\* sent the positions it has sent a request for (history).
NewRun(t, ms, size, n) ==
  [text |-> t, modes |-> ms, modelSize |-> size, maxNewTokens |-> n,
   i |-> 0, collected |-> <<>>, sent |-> {}, pc |-> "start", abandoned |-> FALSE]

\* A slot with no run() call in it.
FreeSlot == [NewRun(<<>>, <<>>, "gpt2", 0) EXCEPT !.pc = "free"]

\* run()'s for loop from position k, up to its next await or to its end: either
\* set activeMode and send the request for modes[k], or (past the last mode) the
\* closing setState.
Advance(s, id, rec, k) ==
  IF k > Len(rec.modes)
  THEN [state |-> SetFinished(s),
        run |-> [rec EXCEPT !.pc = "done"],
        sent |-> {}]
  ELSE [state |-> SetActiveMode(s, rec.modes[k]),
        run |-> [rec EXCEPT !.i = k, !.pc = "await", !.sent = @ \cup {k}],
        sent |-> {InferenceRequest(id, rec, k)}]

Pending == {r \in Slots : runs[r].pc = "await"}

Returned(rec) == rec.pc \in {"done", "failed"}

\* The locals of a call that has returned are kept only while it is the latest.
Keep(id, rec) == IF Returned(rec) /\ id # latest THEN FreeSlot ELSE rec

\* ---------------------------------------------------------------- actions

\* run(text, modes, modelSize, maxNewTokens) up to its first await.
run(t, ms, size, n) ==
  /\ Cardinality(Pending) < MaxPending
  /\ LET live == [r \in Slots |-> IF Returned(runs[r]) THEN FreeSlot ELSE runs[r]]
         id == CHOOSE r \in Slots :
                 /\ live[r].pc = "free"
                 /\ \A r2 \in Slots : live[r2].pc = "free" => r <= r2
         adv == Advance(StartedState, id, NewRun(t, ms, size, n), 1)
     IN /\ state' = adv.state
        /\ runs' = [live EXCEPT ![id] = adv.run]
        /\ latest' = id
        /\ outstanding' = outstanding \cup adv.sent
  /\ undisturbed' = (Pending = {})
  /\ lastOp' = "run"
  /\ prev' = Shown(state)

\* The continuation of run() after `await runInference(req)` resolves.
ResponseOk(q) ==
  /\ q \in outstanding
  /\ LET rec == runs[q.run]
         collected == Append(rec.collected, InferenceResponse(q))
         adv == Advance(SetResults(state, collected), q.run,
                        [rec EXCEPT !.collected = collected], rec.i + 1)
     IN /\ state' = adv.state
        /\ runs' = [runs EXCEPT ![q.run] = Keep(q.run, adv.run)]
        /\ outstanding' = (outstanding \ {q}) \cup adv.sent
  /\ lastOp' = "resolved"
  /\ prev' = Shown(state)
  /\ UNCHANGED <<latest, undisturbed>>

\* Mutant of ResponseFail: the catch block does not return, and the loop goes on
\* to the next mode.
ResponseFail_Continues(q, message) ==
  /\ q \in outstanding
  /\ LET rec == runs[q.run]
         adv == Advance(SetFailed(state, rec.modes[rec.i], message), q.run,
                        rec, rec.i + 1)
     IN /\ state' = adv.state
        /\ runs' = [runs EXCEPT ![q.run] = Keep(q.run, adv.run)]
        /\ outstanding' = (outstanding \ {q}) \cup adv.sent
  /\ lastOp' = "rejected"
  /\ prev' = Shown(state)
  /\ UNCHANGED <<latest, undisturbed>>

\* Mutant of ResponseFail: a response that is not ok is handled apart from a
\* transport failure, and drops the results collected so far.
ResponseFail_ApiDropsResults(q, message) ==
  /\ q \in outstanding
  /\ LET rec == runs[q.run]
         failed == SetFailed(state, rec.modes[rec.i], message)
     IN /\ state' = IF message = TransportFailure THEN failed
                    ELSE [failed EXCEPT !.results = <<>>]
        /\ runs' = [runs EXCEPT
                      ![q.run] = Keep(q.run, [rec EXCEPT !.pc = "failed"])]
  /\ outstanding' = outstanding \ {q}
  /\ lastOp' = "rejected"
  /\ prev' = Shown(state)
  /\ UNCHANGED <<latest, undisturbed>>

\* The catch block of run(), after `await runInference(req)` rejects.
ResponseFail(q, message) ==
  /\ q \in outstanding
  /\ LET rec == runs[q.run]
     IN /\ state' = SetFailed(state, rec.modes[rec.i], message)
        /\ runs' = [runs EXCEPT
                      ![q.run] = Keep(q.run, [rec EXCEPT !.pc = "failed"])]
  /\ outstanding' = outstanding \ {q}
  /\ lastOp' = "rejected"
  /\ prev' = Shown(state)
  /\ UNCHANGED <<latest, undisturbed>>

\* Mutant of reset: the error of the last run is kept.
reset_KeepsError ==
  /\ state' = [IdleState EXCEPT !.error = state.error]
  /\ runs' = [r \in Slots |->
                IF runs[r].pc = "await" THEN [runs[r] EXCEPT !.abandoned = TRUE]
                ELSE runs[r]]
  /\ undisturbed' = FALSE
  /\ lastOp' = "reset"
  /\ prev' = Shown(state)
  /\ UNCHANGED <<latest, outstanding>>

\* reset()
reset ==
  /\ state' = IdleState
  /\ runs' = [r \in Slots |->
                IF runs[r].pc = "await" THEN [runs[r] EXCEPT !.abandoned = TRUE]
                ELSE runs[r]]
  /\ undisturbed' = FALSE
  /\ lastOp' = "reset"
  /\ prev' = Shown(state)
  /\ UNCHANGED <<latest, outstanding>>

\* Mutant of handleSubmit: the guard does not look at loading.
handleSubmit_IgnoresLoading(t, sel) ==
  IF Trim(t) = <<>>
  THEN UNCHANGED orchVars
  ELSE run(Trim(t), sel, "gpt2", 30)

\* BenchmarkForm.handleSubmit with onSubmit = benchmark.run (App), the form
\* holding text t, selection sel and its initial model size and token count.
handleSubmit(t, sel) ==
  IF Trim(t) = <<>> \/ state.loading
  THEN UNCHANGED orchVars
  ELSE run(Trim(t), sel, "gpt2", 30)

\* The backend's aggregates are opaque to the client: the summaries and the
\* comparison it computes at one moment are named by that moment's total.
Summaries(v) == [summaries_of |-> v]
Comparison(v) == [comparison_of |-> v]

\* useState({}) of summaries and of comparison: what the backend reports
\* before any inference.
InitMetrics ==
  /\ summaries = Summaries(0)
  /\ comparison = Comparison(0)
  /\ recentPoints = <<>>
  /\ totalInferences = 0
  /\ connected = FALSE
  /\ error = NoError
  /\ fetching = 1
  /\ faulted = FALSE
  /\ arrived = <<>>
  /\ lastTransport = "none"
  /\ metricsOp = [op |-> "mount"]

\* The component has mounted once: the SSE effect has created the first
\* EventSource and the other effect has called fetchMetrics (fetching = 1).
InitLife ==
  /\ mounted = TRUE
  /\ opened = 1
  /\ sources = {1}
  /\ esRef = 1
  /\ cleanupEs = 1

\* m.latency?.mean ?? 0
LatencyMean(m) == IF "latency" \in DOMAIN m THEN m.latency.mean ELSE 0

\* m.throughput?.mean_tokens_per_sec ?? 0
ThroughputMean(m) ==
  IF "throughput" \in DOMAIN m THEN m.throughput.mean_tokens_per_sec ELSE 0

\* modes.reduce((s, m) => s + (m.latency?.mean ?? 0), 0), over the values of the
\* summaries object s with keys ks.
RECURSIVE SumLatency(_, _)
SumLatency(s, ks) ==
  IF ks = {} THEN 0
  ELSE LET k == CHOOSE x \in ks : TRUE
       IN LatencyMean(s[k]) + SumLatency(s, ks \ {k})

\* Math.max(...xs) of a non-empty set of numbers.
MathMax(xs) == CHOOSE x \in xs : \A y \in xs : y <= x

\* StatsOverview: avgLatency as the fraction num / den that the division gives.
AvgLatency(s) ==
  IF Cardinality(DOMAIN s) > 0
  THEN [num |-> SumLatency(s, DOMAIN s), den |-> Cardinality(DOMAIN s)]
  ELSE [num |-> 0, den |-> 1]

\* StatsOverview: bestThroughput
BestThroughput(s) ==
  IF Cardinality(DOMAIN s) > 0
  THEN MathMax({ThroughputMean(s[k]) : k \in DOMAIN s})
  ELSE 0

\* StatsOverview: activeModes
ActiveModes(s) == Cardinality({k \in DOMAIN s : s[k].count > 0})

\* MODE_CONFIGS.filter((m) => summaries[m.key]?.count > 0), as the keys kept.
RowKeys(s) ==
  SelectSeq(MODE_KEYS, LAMBDA k : k \in DOMAIN s /\ s[k].count > 0)

\* The data of LiveLatencyChart, ThroughputChart and MemoryChart, and the rows of
\* MetricsTable.
LatencyData(s) ==
  [i \in DOMAIN RowKeys(s) |->
     [mode |-> RowKeys(s)[i], mean |-> s[RowKeys(s)[i]].latency.mean]]
ThroughputData(s) ==
  [i \in DOMAIN RowKeys(s) |->
     [mode |-> RowKeys(s)[i],
      mean |-> s[RowKeys(s)[i]].throughput.mean_tokens_per_sec]]
MemoryData(s) ==
  [i \in DOMAIN RowKeys(s) |->
     [mode |-> RowKeys(s)[i], peak |-> s[RowKeys(s)[i]].memory.peak_mb]]
TableRows(s) ==
  [i \in DOMAIN RowKeys(s) |->
     [mode |-> RowKeys(s)[i],
      count |-> s[RowKeys(s)[i]].count,
      meanLatency |-> s[RowKeys(s)[i]].latency.mean,
      throughput |-> s[RowKeys(s)[i]].throughput.mean_tokens_per_sec,
      peakMemory |-> s[RowKeys(s)[i]].memory.peak_mb]]

\* What one render of App derives from the summaries s.
Display(s) ==
  [avgLatency |-> AvgLatency(s),
   bestThroughput |-> BestThroughput(s),
   activeModes |-> ActiveModes(s),
   latency |-> LatencyData(s),
   throughput |-> ThroughputData(s),
   memory |-> MemoryData(s),
   table |-> TableRows(s)]

\* The summaries object with no key: useState({}).
NoSummariesYet == [k \in {} |-> [count |-> 0]]

\* The comparison object with no key: useState({}).
NoComparisonYet == [k \in {} |-> [speedup |-> 0]]

\* With no row, MetricsTable renders nothing.
InitDisplay ==
  /\ shown = NoSummariesYet
  /\ display = Display(NoSummariesYet)
  /\ shownComparison = NoComparisonYet
  /\ table = <<>>
  /\ resultModes = <<>>
  /\ cards = <<>>

\* SAMPLE_PROMPTS[0], a text with no blank at either end, as a sequence of
\* characters.
SamplePrompt == <<"a">>

\* useState(SAMPLE_PROMPTS[0]) and useState(new Set(['baseline', 'quantized']))
InitForm ==
  /\ text = SamplePrompt
  /\ selectedModes = <<"baseline", "quantized">>
  /\ toggled = <<>>

\* No inference has been counted, and the initial fetch has not been served.
InitBackend ==
  /\ backend = 0
  /\ streamed = 0
  /\ responses = <<>>

\* The first render shows the initial value of every cell.
InitRender ==
  /\ kinds = <<>>
  /\ queue = <<>>
  /\ cells = [summaries |-> 0, comparison |-> 0, totalInferences |-> 0,
              recentPoints |-> 0, error |-> 0]

Init ==
  /\ InitMetrics
  /\ InitLife
  /\ InitForm
  /\ InitDisplay
  /\ InitBackend
  /\ InitRender
  /\ state = IdleState
  /\ runs = [r \in Slots |-> FreeSlot]
  /\ latest = 0
  /\ outstanding = {}
  /\ undisturbed = FALSE
  /\ lastOp = "init"
  /\ prev = Shown(IdleState)

\* The orchestrator's steps; useMetrics is a separate hook and keeps its state.
Next ==
  \/ \E t \in Texts, sel \in Selections :
       handleSubmit(t, sel) /\ UNCHANGED besideOrch
  \/ \E q \in outstanding : ResponseOk(q) /\ UNCHANGED besideOrch
  \/ \E q \in outstanding, message \in Failures :
       ResponseFail(q, message) /\ UNCHANGED besideOrch
  \/ reset /\ UNCHANGED besideOrch

Spec == Init /\ [][Next]_vars

\* run() called with any mode list, the empty one too, as the hook allows; the
\* text plays no part in how a run proceeds.
RunModes == Selections \cup {<<>>}

\* How many runs may be waiting for a response when run() is called again.
Overlaps == {0, 1}

\* The modelSize and maxNewTokens run() is called with.
RunArgs == {<<"gpt2", 30>>, <<"gpt2-medium", 50>>}

NextRun ==
  \/ \E ms \in RunModes, args \in RunArgs :
       /\ Cardinality(Pending) \in Overlaps
       /\ run(<<"a">>, ms, args[1], args[2])
       /\ UNCHANGED besideOrch
  \/ \E q \in outstanding : ResponseOk(q) /\ UNCHANGED besideOrch
  \/ \E q \in outstanding, message \in Failures :
       ResponseFail(q, message) /\ UNCHANGED besideOrch
  \/ reset /\ UNCHANGED besideOrch

\* The request the run in slot r waits for is answered, one way or the other.
Answer(r) ==
  \E q \in outstanding :
    /\ q.run = r
    /\ \/ ResponseOk(q)
       \/ \E message \in Failures : ResponseFail(q, message)
    /\ UNCHANGED besideOrch

\* Every request a run sends is eventually answered.
SpecRun == Init /\ [][NextRun]_vars /\ \A r \in Slots : WF_vars(Answer(r))

\* ------------------------------------------------- claims: the orchestrator

\* The requests the run in slot r has sent so far.
Issued(r) == {InferenceRequest(r, runs[r], k) : k \in runs[r].sent}

\* The response that answers position k of the run in slot r.
ResponseAt(r, k) == InferenceResponse(InferenceRequest(r, runs[r], k))

\* Whether message holds the token tok.
Contains(message, tok) == \E k \in DOMAIN message : message[k] = tok

\* The latest run, while nothing has disturbed it.
Undisturbed == latest # 0 /\ undisturbed

\* C1: once reset() has abandoned a run that is waiting for a response, the
\* response (success or failure) changes nothing of the React state and the run
\* sends no further request.
C1_LateResponseIgnored ==
  [][\A q \in outstanding :
       (runs[q.run].abandoned /\ q \notin outstanding')
         => (state' = state /\ outstanding' \subseteq outstanding)]_vars

\* C2: at most one run is in flight and at most one inference request is
\* outstanding, in every reachable state.
C2_AtMostOneInFlight ==
  /\ Cardinality(Pending) <= 1
  /\ Cardinality(outstanding) <= 1

\* C3: within one run the request for position k+1 is sent only after the
\* request for position k has been answered successfully, and a run never has
\* two requests outstanding.
C3_StrictlySequential ==
  \A r \in Slots :
    /\ Cardinality({q \in outstanding : q.run = r}) <= 1
    /\ \A q \in outstanding :
         q.run = r => q \in Issued(r) /\ q.idx = Len(runs[r].collected) + 1
    /\ \A k \in runs[r].sent :
         k > 1 => /\ k - 1 \in runs[r].sent
                  /\ Len(runs[r].collected) >= k - 1
                  /\ runs[r].collected[k - 1] = ResponseAt(r, k - 1)

\* C3 witness: a run waits for its third response while another run waits too.
C3_Witness ==
  \E r \in Slots :
    /\ runs[r].sent = {1, 2, 3}
    /\ InferenceRequest(r, runs[r], 3) \in outstanding
    /\ Cardinality(Pending) = 2

\* C4: when the request for position i is the first of an undisturbed run to
\* fail, the run ends with the results of positions 1..i-1 in order, an error
\* that names the mode at position i, loading false, and no request sent for
\* any later position.
C4_FirstFailureStops ==
  (Undisturbed /\ runs[latest].pc = "failed") =>
    LET rec == runs[latest]
    IN /\ Len(state.results) = rec.i - 1
       /\ \A k \in 1..(rec.i - 1) : state.results[k] = ResponseAt(latest, k)
       /\ Contains(state.error, rec.modes[rec.i])
       /\ state.loading = FALSE
       /\ rec.sent = 1..rec.i
       /\ outstanding = {}

\* C4 witness: modes [A, B, C] where B fails.
C4_Witness ==
  /\ Undisturbed
  /\ runs[latest].pc = "failed"
  /\ Len(runs[latest].modes) = 3
  /\ runs[latest].i = 2

\* C5: an undisturbed run whose requests all succeed ends with loading false,
\* activeMode null, error null, and one result per mode, the i-th being the
\* response to the request for the i-th mode.
C5_AllSucceed ==
  (Undisturbed /\ runs[latest].pc = "done") =>
    LET rec == runs[latest]
    IN /\ state.loading = FALSE
       /\ state.activeMode = NULL
       /\ state.error = NoError
       /\ Len(state.results) = Len(rec.modes)
       /\ \A k \in 1..Len(rec.modes) : state.results[k] = ResponseAt(latest, k)

\* C5 witness: a run over three modes has ended with every request answered.
C5_Witness ==
  /\ Undisturbed
  /\ runs[latest].pc = "done"
  /\ Len(runs[latest].modes) = 3

\* C6: during an undisturbed run activeMode is the mode of the outstanding
\* request, and it changes only from null to the first mode as the run starts,
\* from one mode to the next as a response arrives, and to null as the run ends.
C6_ActiveModeOrder ==
  [][Undisturbed' =>
       LET rec == runs'[latest']
           n == Len(rec.modes)
       IN /\ rec.pc = "await" =>
               /\ state'.activeMode = rec.modes[rec.i]
               /\ outstanding' = {InferenceRequest(latest', rec, rec.i)}
          /\ rec.pc # "await" => state'.activeMode = NULL
          /\ state'.activeMode # state.activeMode =>
               \/ /\ lastOp' = "run"
                  /\ state.activeMode = NULL
                  /\ state'.activeMode = rec.modes[1]
               \/ /\ lastOp' = "resolved"
                  /\ \E k \in 1..(n - 1) :
                       /\ state.activeMode = rec.modes[k]
                       /\ state'.activeMode = rec.modes[k + 1]
               \/ /\ lastOp' = "resolved"
                  /\ rec.pc = "done"
                  /\ state.activeMode = rec.modes[n]
                  /\ state'.activeMode = NULL
               \/ /\ lastOp' = "rejected"
                  /\ rec.pc = "failed"
                  /\ state'.activeMode = NULL]_vars

\* C6 witness: an undisturbed run over three modes waits for its third response.
C6_Witness ==
  /\ Undisturbed
  /\ runs[latest].pc = "await"
  /\ runs[latest].i = 3
  /\ state.activeMode = runs[latest].modes[3]

\* C7: results is a prefix of the mode list of the most recently started run:
\* the i-th result is for the i-th requested mode.
C7_ResultsPrefixOfLatest ==
  IF latest = 0 THEN state.results = <<>>
  ELSE /\ Len(state.results) <= Len(runs[latest].modes)
       /\ \A k \in DOMAIN state.results :
            state.results[k].optimization_mode = runs[latest].modes[k]

\* C8: while an undisturbed run waits for the response at position i + 1, loading
\* is true and results holds exactly the i responses received so far.
C8_IncrementalPublication ==
  (Undisturbed /\ runs[latest].pc = "await") =>
    /\ state.loading = TRUE
    /\ Len(state.results) = runs[latest].i - 1
    /\ \A k \in 1..(runs[latest].i - 1) :
         state.results[k] = ResponseAt(latest, k)

\* C8 witness: two results are visible while the third request is outstanding.
C8_Witness ==
  /\ Undisturbed
  /\ runs[latest].pc = "await"
  /\ runs[latest].i = 3
  /\ Len(state.results) = 2
  /\ state.loading

\* C9: reset(), from any state, leaves loading false, activeMode null, results
\* empty and error null.
C9_ResetClears == lastOp = "reset" => state = IdleState

\* C9 witness: reset() was called while a run was waiting with results shown.
C9_Witness ==
  /\ lastOp = "reset"
  /\ prev.loading
  /\ prev.results
  /\ Pending # {}

\* C10: run() starts by showing loading true, no results and no error, and as
\* long as nothing disturbs the run, the results and the error shown are its own.
C10_RunStartClears ==
  /\ lastOp = "run" =>
       /\ state.loading = TRUE
       /\ state.results = <<>>
       /\ state.error = NoError
  /\ Undisturbed =>
       /\ state.results = runs[latest].collected
       /\ state.error # NoError => runs[latest].pc = "failed"

\* C10 witness: a run has just started from a state that showed the results and
\* the error of a failed run.
C10_Witness ==
  /\ lastOp = "run"
  /\ prev.results
  /\ prev.error
  /\ ~prev.loading

\* ------------------------------------------------------------ useMetrics

\* How many samples the stream delivers in all, in SpecWindow.
MaxArrived == 403
\* How many samples the stream delivers in all, in SpecMetrics.
MaxSamples == 2
\* The backend's totals range over 0..MaxVersion.
MaxVersion == 2
\* How many getMetrics() calls may be waiting for a response at the same time.
MaxFetching == 2

\* merged.slice(-200)
KEEP_LAST == 200

Versions == 0..MaxVersion

\* JavaScript undefined, and the value JSON.parse("null") returns.
UNDEFINED == [undefined |-> TRUE]
JSNULL == [null |-> TRUE]

\* obj[f] of a JavaScript object: undefined for a property it does not have.
Get(obj, f) == IF f \in DOMAIN obj THEN obj[f] ELSE UNDEFINED

\* Array.prototype.slice(start) with one argument: a negative start counts from
\* the end, and a start before the first element is the first element.
Slice(a, start) ==
  LET len == Len(a)
      k == IF start < 0
           THEN (IF len + start < 0 THEN 0 ELSE len + start)
           ELSE (IF start > len THEN len ELSE start)
  IN SubSeq(a, k + 1, len)

\* Mutant of MergeRecent: the first 200 points are kept, merged.slice(0, 200).
MergeRecent_KeepsOldest(points, recent) ==
  SubSeq(points \o recent, 1,
         IF Len(points \o recent) < KEEP_LAST THEN Len(points \o recent)
         ELSE KEEP_LAST)

\* Mutant of MergeRecent: the window is cut before the batch is added,
\* [...prev.slice(-200), ...data.recent].
MergeRecent_CutsBefore(points, recent) == Slice(points, 0 - KEEP_LAST) \o recent

\* The updater of setRecentPoints: [...prev, ...data.recent].slice(-200)
MergeRecent(points, recent) == Slice(points \o recent, 0 - KEEP_LAST)

\* A RecentMetric.  The backend stamps its samples in the order it takes them.
Sample(ts) == [timestamp |-> ts]

\* The next n samples of the backend, after those the stream has delivered.
NewBatch(n) == [k \in 1..n |-> Sample(Len(arrived) + k)]

\* event.data of a stream frame: text JSON.parse rejects, or the value it returns.
Unparsable == [parses |-> FALSE]
Json(value) == [parses |-> TRUE, value |-> value]

\* SSEData, and two objects that lack one of its properties.
SSEData(recent, v) ==
  [recent |-> recent, summaries |-> Summaries(v), total |-> v]
NoRecent(v) == [summaries |-> Summaries(v), total |-> v]
NoSummaries(recent, v) == [recent |-> recent, total |-> v]

IsSSEData(frame) ==
  /\ frame.parses
  /\ DOMAIN frame.value = {"recent", "summaries", "total"}

\* The frames the stream may deliver next, with batches of the given sizes.
Frames(sizes, versions) ==
  {Unparsable, Json(JSNULL)}
    \cup {Json(SSEData(NewBatch(n), v)) : n \in sizes, v \in versions}
    \cup {Json(NoRecent(v)) : v \in versions}
    \cup {Json(NoSummaries(NewBatch(n), v)) : n \in sizes, v \in versions}

\* MetricsResponse of GET /metrics when the backend's total is v.
MetricsResponse(v) ==
  [summaries |-> Summaries(v), comparison |-> Comparison(v),
   total_inferences |-> v]

\* What request() throws: an Error with one of the messages of Failures.
Errors == {[message |-> m] : m \in Failures}

\* err.message ?? 'Failed to fetch metrics'
ErrorMessage(err) ==
  IF "message" \in DOMAIN err THEN err.message
  ELSE <<"Failed to fetch metrics">>

\* The cells the rendering layer reads.
store == <<summaries, comparison, recentPoints, totalInferences, connected, error>>

\* fetchMetrics() up to `await getMetrics()`: the initial load's is in Init, this
\* is a call of refresh.
fetchMetrics ==
  /\ ~faulted
  /\ fetching < MaxFetching
  /\ fetching' = fetching + 1
  /\ metricsOp' = [op |-> "refresh"]
  /\ UNCHANGED <<store, faulted, arrived, lastTransport>>

\* History of a successful fetch: the response, the error it cleared, and
\* whether the step before it was a successful fetch with the same response.
Fetched(data) ==
  [op |-> "fetched", data |-> data, cleared |-> error,
   repeats |-> metricsOp.op = "fetched" /\ metricsOp.data = data]

\* Mutant of FetchOk: the comparison is replaced and the summaries are kept.
FetchOk_KeepsSummaries(data) ==
  /\ ~faulted
  /\ fetching > 0
  /\ comparison' = data.comparison
  /\ totalInferences' = data.total_inferences
  /\ error' = NoError
  /\ fetching' = fetching - 1
  /\ metricsOp' = Fetched(data)
  /\ UNCHANGED <<summaries, recentPoints, connected, faulted, arrived,
                 lastTransport>>

\* Mutant of FetchOk: the total is added to the stored one.
FetchOk_AddsTotal(data) ==
  /\ ~faulted
  /\ fetching > 0
  /\ summaries' = data.summaries
  /\ comparison' = data.comparison
  /\ totalInferences' = totalInferences + data.total_inferences
  /\ error' = NoError
  /\ fetching' = fetching - 1
  /\ metricsOp' = Fetched(data)
  /\ UNCHANGED <<recentPoints, connected, faulted, arrived, lastTransport>>

\* Mutant of FetchOk: a recorded error is not cleared.
FetchOk_KeepsError(data) ==
  /\ ~faulted
  /\ fetching > 0
  /\ summaries' = data.summaries
  /\ comparison' = data.comparison
  /\ totalInferences' = data.total_inferences
  /\ fetching' = fetching - 1
  /\ metricsOp' = Fetched(data)
  /\ UNCHANGED <<recentPoints, connected, error, faulted, arrived, lastTransport>>

\* fetchMetrics() after `await getMetrics()` resolves with data.
FetchOk(data) ==
  /\ ~faulted
  /\ fetching > 0
  /\ summaries' = data.summaries
  /\ comparison' = data.comparison
  /\ totalInferences' = data.total_inferences
  /\ error' = NoError
  /\ fetching' = fetching - 1
  /\ metricsOp' = Fetched(data)
  /\ UNCHANGED <<recentPoints, connected, faulted, arrived, lastTransport>>

\* Mutant of FetchFail: the stale snapshot is blanked.
FetchFail_Blanks(err) ==
  /\ ~faulted
  /\ fetching > 0
  /\ error' = ErrorMessage(err)
  /\ summaries' = Summaries(0)
  /\ comparison' = Comparison(0)
  /\ fetching' = fetching - 1
  /\ metricsOp' = [op |-> "fetchFailed", err |-> err]
  /\ UNCHANGED <<recentPoints, totalInferences, connected, faulted, arrived,
                 lastTransport>>

\* The catch block of fetchMetrics(), after `await getMetrics()` rejects with err.
FetchFail(err) ==
  /\ ~faulted
  /\ fetching > 0
  /\ error' = ErrorMessage(err)
  /\ fetching' = fetching - 1
  /\ metricsOp' = [op |-> "fetchFailed", err |-> err]
  /\ UNCHANGED <<summaries, comparison, recentPoints, totalInferences, connected,
                 faulted, arrived, lastTransport>>

\* Mutant of onopen: the flag is not set.
onopen_Lost ==
  /\ ~faulted
  /\ lastTransport' = "open"
  /\ metricsOp' = [op |-> "open"]
  /\ UNCHANGED <<store, fetching, faulted, arrived>>

\* es.onopen
onopen ==
  /\ ~faulted
  /\ connected' = TRUE
  /\ lastTransport' = "open"
  /\ metricsOp' = [op |-> "open"]
  /\ UNCHANGED <<summaries, comparison, recentPoints, totalInferences, error,
                 fetching, faulted, arrived>>

\* Mutant of onerror: the accumulated window is dropped with the connection.
onerror_ClearsWindow ==
  /\ ~faulted
  /\ connected' = FALSE
  /\ recentPoints' = <<>>
  /\ lastTransport' = "error"
  /\ metricsOp' = [op |-> "error"]
  /\ UNCHANGED <<summaries, comparison, totalInferences, error, fetching,
                 faulted, arrived>>

\* Mutant of onerror: the stream's failure is reported in the error field.
onerror_SetsError ==
  /\ ~faulted
  /\ connected' = FALSE
  /\ error' = <<"Stream disconnected">>
  /\ lastTransport' = "error"
  /\ metricsOp' = [op |-> "error"]
  /\ UNCHANGED <<summaries, comparison, recentPoints, totalInferences, fetching,
                 faulted, arrived>>

\* es.onerror
onerror ==
  /\ ~faulted
  /\ connected' = FALSE
  /\ lastTransport' = "error"
  /\ metricsOp' = [op |-> "error"]
  /\ UNCHANGED <<summaries, comparison, recentPoints, totalInferences, error,
                 fetching, faulted, arrived>>

\* Mutant of onmessage: the catch block records an error.
onmessage_ReportsError(frame) ==
  /\ ~faulted
  /\ IF ~frame.parses \/ frame.value = JSNULL
     THEN /\ error' = <<"Malformed event">>
          /\ UNCHANGED <<summaries, totalInferences, recentPoints, arrived, faulted>>
     ELSE /\ summaries' = Get(frame.value, "summaries")
          /\ totalInferences' = Get(frame.value, "total")
          /\ IF "recent" \in DOMAIN frame.value
             THEN /\ recentPoints' = MergeRecent(recentPoints, frame.value.recent)
                  /\ arrived' = arrived \o frame.value.recent
                  /\ UNCHANGED faulted
             ELSE /\ faulted' = TRUE
                  /\ UNCHANGED <<recentPoints, arrived>>
          /\ UNCHANGED error
  /\ metricsOp' = [op |-> "message", frame |-> frame]
  /\ UNCHANGED <<comparison, connected, fetching, lastTransport>>

\* Mutant of onmessage: the comparison table is cleared with each message.
onmessage_ClearsComparison(frame) ==
  /\ ~faulted
  /\ IF ~frame.parses \/ frame.value = JSNULL
     THEN UNCHANGED <<summaries, comparison, totalInferences, recentPoints,
                      arrived, faulted>>
     ELSE /\ summaries' = Get(frame.value, "summaries")
          /\ comparison' = Comparison(0)
          /\ totalInferences' = Get(frame.value, "total")
          /\ IF "recent" \in DOMAIN frame.value
             THEN /\ recentPoints' = MergeRecent(recentPoints, frame.value.recent)
                  /\ arrived' = arrived \o frame.value.recent
                  /\ UNCHANGED faulted
             ELSE /\ faulted' = TRUE
                  /\ UNCHANGED <<recentPoints, arrived>>
  /\ metricsOp' = [op |-> "message", frame |-> frame]
  /\ UNCHANGED <<connected, error, fetching, lastTransport>>

\* es.onmessage.  JSON.parse throws on text that is no JSON, and reading
\* data.summaries throws when data is null: both inside the try, before any
\* setState.  Otherwise the three setState calls are made; the updater of
\* setRecentPoints spreads data.recent, which throws when it is undefined, and
\* that is outside the try: React runs the updater as it renders.
onmessage(frame) ==
  /\ ~faulted
  /\ IF ~frame.parses \/ frame.value = JSNULL
     THEN UNCHANGED <<summaries, totalInferences, recentPoints, arrived, faulted>>
     ELSE /\ summaries' = Get(frame.value, "summaries")
          /\ totalInferences' = Get(frame.value, "total")
          /\ IF "recent" \in DOMAIN frame.value
             THEN /\ recentPoints' = MergeRecent(recentPoints, frame.value.recent)
                  /\ arrived' = arrived \o frame.value.recent
                  /\ UNCHANGED faulted
             ELSE /\ faulted' = TRUE
                  /\ UNCHANGED <<recentPoints, arrived>>
  /\ metricsOp' = [op |-> "message", frame |-> frame]
  /\ UNCHANGED <<comparison, connected, error, fetching, lastTransport>>

\* The samples a frame carries.
Carried(frame) ==
  IF frame.parses /\ "recent" \in DOMAIN frame.value
  THEN Len(frame.value.recent) ELSE 0

\* useMetrics with small batches: the stream's events, refresh, and the
\* responses to the snapshot fetches.
NextMetrics ==
  \/ \E frame \in Frames(0..MaxSamples, Versions) :
       /\ Len(arrived) + Carried(frame) <= MaxSamples
       /\ onmessage(frame)
       /\ UNCHANGED besideMetrics
  \/ onopen /\ UNCHANGED besideMetrics
  \/ onerror /\ UNCHANGED besideMetrics
  \/ fetchMetrics /\ UNCHANGED besideMetrics
  \/ \E v \in Versions : FetchOk(MetricsResponse(v)) /\ UNCHANGED besideMetrics
  \/ \E err \in Errors : FetchFail(err) /\ UNCHANGED besideMetrics

SpecMetrics == Init /\ [][NextMetrics]_vars

\* Batch sizes around the window's capacity: empty, small, and larger than it.
WindowSizes == {0, 1, 2, KEEP_LAST + 1}
\* The totals the stream reports in SpecWindow.
WindowVersions == {1, 2}

\* The stream alone, with batches that fill the window and overflow it.
NextWindow ==
  \E frame \in Frames(WindowSizes, WindowVersions) :
    /\ Len(arrived) + Carried(frame) <= MaxArrived
    /\ onmessage(frame)
    /\ UNCHANGED besideMetrics

SpecWindow == Init /\ [][NextWindow]_vars

\* ------------------------------------------------------ claims, useMetrics

\* The last operation was a stream message whose frame has the shape of SSEData.
ValidMessage(op) == op.op = "message" /\ IsSSEData(op.frame)

\* C11: the recent-sample window never holds more than 200 samples, whatever
\* the stream delivers: empty batches, and batches of more than 200 samples.
C11_WindowBounded == Len(recentPoints) <= KEEP_LAST

\* A batch of more than 200 samples has arrived and the window is full.
C11_Witness ==
  /\ metricsOp.op = "message"
  /\ Carried(metricsOp.frame) > KEEP_LAST
  /\ Len(arrived) > Carried(metricsOp.frame)
  /\ Len(recentPoints) = KEEP_LAST

\* C12: the window is the last min(200, n) of the n samples that arrived, in
\* the order of arrival; and after the single batch [s1, s2] with total 2 the
\* window is [s1, s2] and totalInferences is 2.
C12_WindowIsTail ==
  LET n == Len(arrived)
      m == IF n < KEEP_LAST THEN n ELSE KEEP_LAST
  IN /\ Len(recentPoints) = m
     /\ \A i \in 1..m : recentPoints[i] = arrived[n - m + i]
     /\ (/\ metricsOp.op = "message"
         /\ metricsOp.frame = Json(SSEData(<<Sample(1), Sample(2)>>, 2))
         /\ n = 2)
        => /\ recentPoints = <<Sample(1), Sample(2)>>
           /\ totalInferences = 2

\* Two batches of more than 200 samples have arrived: the window holds the last
\* 200 samples of the second.
C12_Witness ==
  /\ ValidMessage(metricsOp)
  /\ Len(arrived) > 2 * KEEP_LAST
  /\ recentPoints[1] = Sample(Len(arrived) - KEEP_LAST + 1)
  /\ recentPoints[KEEP_LAST] = Sample(Len(arrived))

\* The single batch [s1, s2] of C12 has been applied to the initial store.
C12_WitnessTwo ==
  /\ metricsOp.op = "message"
  /\ metricsOp.frame = Json(SSEData(<<Sample(1), Sample(2)>>, 2))
  /\ Len(arrived) = 2
  /\ totalInferences = 2

\* C13: a valid stream message replaces summaries and totalInferences with
\* the payload's and leaves comparison as it was; comparison changes only in
\* the step of a successful snapshot fetch.
C13_StreamKeepsComparison ==
  [][/\ ValidMessage(metricsOp')
        => /\ summaries' = metricsOp'.frame.value.summaries
           /\ totalInferences' = metricsOp'.frame.value.total
           /\ comparison' = comparison
     /\ comparison' # comparison => metricsOp'.op = "fetched"]_vars

\* A valid message has replaced the summaries of a fetched snapshot, whose
\* comparison is still there.
C13_Witness ==
  /\ ValidMessage(metricsOp)
  /\ comparison = Comparison(2)
  /\ summaries = Summaries(1)
  /\ totalInferences = 1

\* C14 as stated: the stored summaries and the stored comparison come from the
\* same backend computation, in every reachable state.
C14_SameUpdate == summaries = Summaries(comparison.comparison_of)

\* C14 as amended: comparison is never replaced without summaries: it changes
\* only in the step of a successful fetch, which writes summaries, comparison
\* and totalInferences from the one response; a stream message replaces
\* summaries and totalInferences and keeps comparison.
C14_ComparisonWithSummaries ==
  [][/\ comparison' # comparison
        => /\ metricsOp'.op = "fetched"
           /\ summaries' = metricsOp'.data.summaries
           /\ comparison' = metricsOp'.data.comparison
           /\ totalInferences' = metricsOp'.data.total_inferences
     /\ metricsOp'.op = "fetched"
        => summaries' = Summaries(comparison'.comparison_of)
     /\ metricsOp'.op = "message" => comparison' = comparison]_vars

\* A fetch has replaced summaries that a stream message had written, together
\* with the comparison.
C14_Witness ==
  /\ metricsOp.op = "fetched"
  /\ metricsOp.data = MetricsResponse(2)
  /\ summaries = Summaries(2)
  /\ comparison = Comparison(2)
  /\ Len(arrived) > 0

\* C15: a frame that is no JSON changes nothing: summaries, totalInferences,
\* the window, comparison, connected and error are as before.
C15_UnparsableIgnored ==
  [][(metricsOp'.op = "message" /\ ~metricsOp'.frame.parses)
       => UNCHANGED <<summaries, totalInferences, recentPoints, comparison,
                      connected, error>>]_vars

\* An unparsable frame has arrived at a store that holds a snapshot, samples
\* and an error.
C15_Witness ==
  /\ metricsOp.op = "message"
  /\ ~metricsOp.frame.parses
  /\ summaries = Summaries(1)
  /\ comparison = Comparison(2)
  /\ Len(recentPoints) > 0
  /\ connected
  /\ error # NoError

\* C16: a frame that is JSON but has not the shape {recent, summaries, total}
\* is discarded as a whole: summaries, totalInferences and the window keep their
\* values and no fault leaves the handler or its state updaters.
C16_MisshapenDiscarded ==
  [][(/\ metricsOp'.op = "message"
      /\ metricsOp'.frame.parses
      /\ ~IsSSEData(metricsOp'.frame))
       => /\ UNCHANGED <<summaries, totalInferences, recentPoints>>
          /\ ~faulted']_vars

\* C17: a failed snapshot fetch records an error and leaves summaries,
\* comparison, totalInferences, the window and connected as they were.
C17_FailedFetchKeepsSnapshot ==
  [][metricsOp'.op = "fetchFailed"
       => /\ error' # NoError
          /\ error' = metricsOp'.err.message
          /\ UNCHANGED <<summaries, comparison, totalInferences, recentPoints,
                         connected>>]_vars

\* A fetch has failed at a store that holds a fetched snapshot and samples.
C17_Witness ==
  /\ metricsOp.op = "fetchFailed"
  /\ error # NoError
  /\ comparison = Comparison(1)
  /\ summaries = Summaries(2)
  /\ totalInferences = 2
  /\ Len(recentPoints) > 0
  /\ connected

\* C18: a successful snapshot fetch writes summaries, comparison and
\* totalInferences from the response and sets error to null, whatever it was;
\* the window and connected are as before.
C18_FetchReplacesSnapshot ==
  [][metricsOp'.op = "fetched"
       => /\ summaries' = metricsOp'.data.summaries
          /\ comparison' = metricsOp'.data.comparison
          /\ totalInferences' = metricsOp'.data.total_inferences
          /\ error' = NoError
          /\ UNCHANGED <<recentPoints, connected>>]_vars

\* A fetch has succeeded after a failed one: the error it found is cleared, the
\* samples and the connection flag are still there.
C18_Witness ==
  /\ metricsOp.op = "fetched"
  /\ metricsOp.cleared # NoError
  /\ error = NoError
  /\ comparison = Comparison(1)
  /\ totalInferences = 1
  /\ Len(recentPoints) > 0
  /\ connected

\* C19: a successful fetch that follows a successful fetch with the same
\* response leaves summaries, comparison, totalInferences and error as the
\* first left them.
C19_FetchIdempotent ==
  [][(/\ metricsOp.op = "fetched"
      /\ metricsOp'.op = "fetched"
      /\ metricsOp'.data = metricsOp.data)
       => UNCHANGED <<summaries, comparison, totalInferences, error>>]_vars

\* Two fetches in a row have succeeded with the same response, of a backend
\* that has counted inferences.
C19_Witness ==
  /\ metricsOp.op = "fetched"
  /\ metricsOp.repeats
  /\ metricsOp.data = MetricsResponse(1)
  /\ totalInferences = 1

\* C20: connected is true exactly when the last open or error event of the
\* stream was an open: false at first, true after an open, false after an
\* error; messages and fetches do not change it.
C20_ConnectedIsLastTransport == connected = (lastTransport = "open")

\* The stream is open again after an error, and a message, then a failed fetch
\* have passed since.
C20_Witness ==
  /\ connected
  /\ lastTransport = "open"
  /\ metricsOp.op = "fetchFailed"
  /\ Len(arrived) > 0

\* C21: a stream error event changes only the connected flag: summaries,
\* comparison, totalInferences, the window and the error message are as before;
\* an open keeps the window too, and the messages that follow add to it.
C21_ErrorKeepsData ==
  [][/\ metricsOp'.op = "error"
        => /\ connected' = FALSE
           /\ UNCHANGED <<summaries, comparison, totalInferences, recentPoints,
                          error>>
     /\ metricsOp'.op = "open" => recentPoints' = recentPoints
     /\ ValidMessage(metricsOp')
        => recentPoints' =
             Slice(recentPoints \o metricsOp'.frame.value.recent, 0 - KEEP_LAST)]_vars

\* The stream has failed at a store that holds a snapshot, samples and an error
\* message.
C21_Witness ==
  /\ metricsOp.op = "error"
  /\ ~connected
  /\ Len(recentPoints) > 0
  /\ summaries = Summaries(2)
  /\ comparison = Comparison(1)
  /\ error # NoError

\* C24: a transport failure and a response that is not ok cause the same
\* transition of the orchestrator: loading false, activeMode null, results
\* kept, no request sent; the states differ only in the text that follows
\* 'Failed on <mode>: ' in error.
C24_FailuresAlike ==
  [][lastOp' = "rejected"
       => \E q \in outstanding :
            /\ outstanding' = outstanding \ {q}
            /\ \E message \in Failures :
                 state' = [state EXCEPT
                             !.loading = FALSE,
                             !.activeMode = NULL,
                             !.error = <<"Failed on ",
                                         runs[q.run].modes[runs[q.run].i],
                                         ": ">> \o message]]_vars

\* A response that is not ok has ended a run that had collected results.
C24_Witness ==
  /\ lastOp = "rejected"
  /\ Contains(state.error, "API ")
  /\ Len(state.results) > 0
  /\ ~state.loading
  /\ state.activeMode = NULL

\* C29: error is null exactly when the fetch that completed last succeeded, or
\* none has completed: a successful fetch sets it to null, a failed one to a
\* message, and no other step changes it, whatever the order of the responses
\* to overlapping fetches.
C29_ErrorIsLastFetch ==
  [][/\ metricsOp'.op = "fetched" => error' = NoError
     /\ metricsOp'.op = "fetchFailed" => error' # NoError
     /\ metricsOp'.op \in {"open", "error", "message", "refresh"}
        => error' = error]_vars

\* Of two overlapping fetches one has failed and the other is still waiting,
\* and the stream has delivered since the mount.
C29_Witness ==
  /\ metricsOp.op = "fetchFailed"
  /\ error # NoError
  /\ fetching > 0
  /\ connected
  /\ Len(arrived) > 0

\* C30: activeMode is non-null only while loading is true.
C30_ActiveOnlyWhileLoading == state.activeMode # NULL => state.loading

\* C27: every run returns, given that each request is answered: a run that
\* waits for a response stops waiting, and in the step it returns loading is
\* false and either results has one entry per mode or error is non-null; a run
\* over the empty mode list returns as it is called, loading false, with no
\* request sent.
C27_RunsTerminate ==
  /\ \A r \in Slots : (runs[r].pc = "await") ~> (runs[r].pc # "await")
  /\ [][\A r \in Slots :
          (runs[r].pc = "await" /\ runs'[r].pc # "await")
            => /\ ~state'.loading
               /\ \/ Len(state'.results) = Len(runs[r].modes)
                  \/ state'.error # NoError]_vars
  /\ [][(lastOp' = "run" /\ runs'[latest'].modes = <<>>)
          => /\ ~state'.loading
             /\ state'.results = <<>>
             /\ runs'[latest'].pc = "done"
             /\ outstanding' = outstanding]_vars

\* A run over three modes has returned with its three results while another run
\* still waits.
C27_Witness ==
  /\ lastOp = "resolved"
  /\ runs[latest].pc = "done"
  /\ Len(runs[latest].modes) = 3
  /\ Len(state.results) = 3
  /\ ~state.loading
  /\ Pending # {}

\* A run over the empty mode list has returned.
C27_WitnessEmpty ==
  /\ lastOp = "run"
  /\ runs[latest].modes = <<>>
  /\ ~state.loading

\* --------------------------------------------------- useMetrics: lifecycle

\* How many times the dashboard mounts.
MaxMounts == 3

\* The useState cells of a fresh mount, with the initial fetchMetrics() call made
\* by the second effect.
MountedState ==
  /\ summaries' = Summaries(0)
  /\ comparison' = Comparison(0)
  /\ recentPoints' = <<>>
  /\ totalInferences' = 0
  /\ connected' = FALSE
  /\ error' = NoError
  /\ fetching' = 1
  /\ faulted' = FALSE
  /\ arrived' = <<>>
  /\ lastTransport' = "none"
  /\ metricsOp' = [op |-> "mount"]

\* The component mounts: its cells are new, the SSE effect runs
\* (new EventSource, eventSourceRef.current = es) and the initial fetch starts.
mount ==
  /\ ~mounted
  /\ opened < MaxMounts
  /\ mounted' = TRUE
  /\ opened' = opened + 1
  /\ sources' = sources \cup {opened + 1}
  /\ esRef' = opened + 1
  /\ cleanupEs' = opened + 1
  /\ MountedState

\* What is left of the hook's state once the component is gone: nothing is
\* rendered, and the responses to its fetches find no component to update.
UnmountedState ==
  /\ summaries' = Summaries(0)
  /\ comparison' = Comparison(0)
  /\ recentPoints' = <<>>
  /\ totalInferences' = 0
  /\ connected' = FALSE
  /\ error' = NoError
  /\ fetching' = 0
  /\ faulted' = FALSE
  /\ arrived' = <<>>
  /\ lastTransport' = "none"
  /\ metricsOp' = [op |-> "unmount"]

\* Mutant of unmount: the cleanup clears the ref and does not close the source.
unmount_KeepsOpen ==
  /\ mounted
  /\ mounted' = FALSE
  /\ esRef' = 0
  /\ cleanupEs' = 0
  /\ UnmountedState
  /\ UNCHANGED <<opened, sources>>

\* The component unmounts (also when a render has failed): the cleanup of the
\* SSE effect runs, es.close() and eventSourceRef.current = null.
unmount ==
  /\ mounted
  /\ mounted' = FALSE
  /\ sources' = sources \ {cleanupEs}
  /\ esRef' = 0
  /\ cleanupEs' = 0
  /\ UnmountedState
  /\ UNCHANGED opened

\* useMetrics over mounts and unmounts: the events of NextMetrics reach the hook
\* only while it is mounted (a closed EventSource delivers nothing).
NextLife ==
  \/ mounted /\ NextMetrics
  \/ mount /\ UNCHANGED besideLife
  \/ unmount /\ UNCHANGED besideLife

SpecLife == Init /\ [][NextLife]_vars

\* C22: over any sequence of mounts and unmounts exactly one stream
\* subscription is open while the dashboard is mounted, the one its effect
\* created, and none is open after the unmount.
C22_OneSubscription ==
  /\ mounted => (sources = {esRef} /\ esRef = opened /\ cleanupEs = esRef)
  /\ ~mounted => (sources = {} /\ esRef = 0)

\* The dashboard has mounted, unmounted and mounted again, and the stream of
\* the second mount has delivered.
C22_Witness ==
  /\ mounted
  /\ opened = 2
  /\ sources = {2}
  /\ Len(arrived) > 0

\* The dashboard has unmounted after its second mount.
C22_WitnessDown ==
  /\ ~mounted
  /\ opened = 2
  /\ sources = {}

\* ------------------------------------------------------------ BenchmarkForm

\* What the user may type into the prompt field: nothing, blanks, the sample,
\* and text between blanks.
FormTexts == Texts \cup {<<>>, SamplePrompt}

\* The mode buttons the user presses.
ToggleModes == {"baseline", "quantized", "torchscript"}

\* The elements of a Set held in insertion order.
Elements(set) == {set[k] : k \in DOMAIN set}

\* Set.prototype.delete
Delete(set, x) == SelectSeq(set, LAMBDA y : y # x)

\* Set.prototype.add
Add(set, x) == IF x \in Elements(set) THEN set ELSE Append(set, x)

\* onChange of the prompt field, and randomPrompt: setText
setText(t) ==
  /\ text' = t
  /\ UNCHANGED <<selectedModes, toggled>>

\* Mutant of toggleMode: a selected mode is removed also when it is the only
\* one.
toggleMode_RemovesLast(mode) ==
  /\ selectedModes' =
       IF mode \in Elements(selectedModes)
       THEN Delete(selectedModes, mode)
       ELSE Add(selectedModes, mode)
  /\ toggled' = <<mode, selectedModes>>
  /\ UNCHANGED text

\* toggleMode(mode): the updater of setSelectedModes
toggleMode(mode) ==
  /\ selectedModes' =
       IF mode \in Elements(selectedModes)
       THEN (IF Len(selectedModes) > 1 THEN Delete(selectedModes, mode)
             ELSE selectedModes)
       ELSE Add(selectedModes, mode)
  /\ toggled' = <<mode, selectedModes>>
  /\ UNCHANGED text

\* The form and the orchestrator as App wires them: run is called by
\* handleSubmit only, and reset by nothing.
NextForm ==
  \/ \E t \in FormTexts : setText(t) /\ UNCHANGED besideForm
  \/ \E mode \in ToggleModes : toggleMode(mode) /\ UNCHANGED besideForm
  \/ handleSubmit(text, selectedModes) /\ UNCHANGED besideOrch
  \/ \E q \in outstanding : ResponseOk(q) /\ UNCHANGED besideOrch
  \/ \E q \in outstanding, message \in Failures :
       ResponseFail(q, message) /\ UNCHANGED besideOrch

SpecForm == Init /\ [][NextForm]_vars

\* A step in which run() is called: every call changes the orchestrator's state.
RunCalled == lastOp' = "run" /\ orchVars' # orchVars

\* C25: the form calls run only when the text is not empty after trimming and
\* loading is false, and passes the trimmed text and a non-empty mode list, its
\* selection; a submission it rejects changes no orchestrator state.
C25_FormGuard ==
  /\ [](selectedModes # <<>>)
  /\ [][RunCalled
          => /\ ~state.loading
             /\ Trim(text) # <<>>
             /\ runs'[latest'].text = Trim(text)
             /\ ~IsBlank(Head(runs'[latest'].text))
             /\ ~IsBlank(runs'[latest'].text[Len(runs'[latest'].text)])
             /\ runs'[latest'].modes = selectedModes
             /\ runs'[latest'].modes # <<>>]_vars
  /\ [][(Trim(text) = <<>> \/ state.loading)
          => (lastOp' # "run" \/ orchVars' = orchVars)]_vars

\* run has just been called with the trimmed text of a field that holds blanks
\* around it, and with a selection the user has changed.
C25_Witness ==
  /\ lastOp = "run"
  /\ state.loading
  /\ text = <<" ", "a", " ">>
  /\ runs[latest].text = <<"a">>
  /\ selectedModes = <<"torchscript">>
  /\ runs[latest].modes = selectedModes

\* C34: the form's selection is never empty: it starts as {baseline,
\* quantized}; toggling an unselected mode adds it; toggling a selected mode
\* removes it when at least two modes are selected, and leaves the selection as
\* it is when it is the only one.
C34_SelectionNeverEmpty ==
  /\ selectedModes # <<>>
  /\ Cardinality(Elements(selectedModes)) = Len(selectedModes)
  /\ IF toggled = <<>>
     THEN Elements(selectedModes) = {"baseline", "quantized"}
     ELSE LET mode == toggled[1]
              before == Elements(toggled[2])
          IN Elements(selectedModes) =
               IF mode \notin before THEN before \cup {mode}
               ELSE IF Cardinality(before) >= 2 THEN before \ {mode}
               ELSE before

\* The only selected mode has been toggled, and is still the selection.
C34_Witness ==
  /\ toggled = <<"torchscript", <<"torchscript">>>>
  /\ selectedModes = <<"torchscript">>

\* ------------------------------------------------- the display components

\* The modes the backend reports in the summaries the model renders.
SummaryKeys == {"baseline", "quantized", "onnx"}

\* A ModeSummary with the fields the components read.
ModeSummary(count, latency, throughput, memory) ==
  [count |-> count,
   latency |-> [mean |-> latency],
   throughput |-> [mean_tokens_per_sec |-> throughput],
   memory |-> [peak_mb |-> memory]]

\* The summaries of one mode: of a mode with no inference yet (all zero, or with
\* no statistics at all), and of modes that have run.
ModeSummaries ==
  {ModeSummary(0, 0, 0, 0), [count |-> 0]}
    \cup {ModeSummary(2, l, t, 40) : l \in {10, 30}, t \in {5, 20}}

\* The summaries objects the backend may report.
SummaryObjects ==
  UNION {[ks -> ModeSummaries] : ks \in SUBSET SummaryKeys}

\* JavaScript numbers: a finite number in tenths, NaN, and the two infinities.
Num(tenths) == [tenths |-> tenths]
NaN == [nan |-> TRUE]
Infinity == [infinity |-> 1]
MinusInfinity == [infinity |-> -1]

\* isFinite(x) of a number
IsFinite(x) == x \notin {NaN, Infinity, MinusInfinity}

\* !x of a number or of undefined or null
Not(x) == x \in {Num(0), NaN, UNDEFINED, JSNULL}

\* c?.f ?? 0
FieldOrZero(c, f) ==
  LET v == IF c \in {UNDEFINED, JSNULL} THEN UNDEFINED ELSE Get(c, f)
  IN IF v \in {UNDEFINED, JSNULL} THEN Num(0) ELSE v

\* x.toFixed(1) of a positive ratio num / den, in tenths (half rounds up).
ToFixed1(num, den) == (20 * num + den) \div (2 * den)

\* Mutant of SpeedupBadge: only a speedup that is not finite is shown as N/A.
SpeedupBadge_OnlyNotFinite(speedup) ==
  IF ~IsFinite(speedup)
  THEN [badge |-> "N/A"]
  ELSE IF speedup.tenths >= 11
  THEN [badge |-> "faster", times |-> ToFixed1(speedup.tenths, 10)]
  ELSE IF speedup.tenths <= 9
  THEN [badge |-> "slower",
        times |-> IF speedup.tenths > 0 THEN ToFixed1(10, speedup.tenths)
                  ELSE 0]
  ELSE [badge |-> "similar", times |-> ToFixed1(speedup.tenths, 10)]

\* SpeedupBadge({ speedup }): what the badge shows.
SpeedupBadge(speedup) ==
  IF Not(speedup) \/ ~IsFinite(speedup) \/ speedup = Num(0)
  THEN [badge |-> "N/A"]
  ELSE IF speedup.tenths >= 11
  THEN [badge |-> "faster", times |-> ToFixed1(speedup.tenths, 10)]
  ELSE IF speedup.tenths <= 9
  THEN [badge |-> "slower", times |-> ToFixed1(10, speedup.tenths)]
  ELSE [badge |-> "similar", times |-> ToFixed1(speedup.tenths, 10)]

\* The rows of MetricsTable with their cost and speedup, and the badge each row
\* shows.
Rows(s, c) ==
  [i \in DOMAIN RowKeys(s) |->
     LET entry == Get(c, RowKeys(s)[i])
         speedup == FieldOrZero(entry, "speedup")
     IN TableRows(s)[i]
          @@ [cost |-> FieldOrZero(entry, "estimated_cost_per_1m_tokens"),
              speedup |-> speedup,
              badge |-> SpeedupBadge(speedup)]]

\* App renders with the summaries s.
render(s) ==
  /\ shown' = s
  /\ display' = Display(s)
  /\ table' = Rows(s, shownComparison)
  /\ UNCHANGED <<shownComparison, resultModes, cards>>

NextDisplay == \E s \in SummaryObjects : render(s) /\ UNCHANGED besideDisplay

SpecDisplay == Init /\ [][NextDisplay]_vars

\* The summaries of the modes that have run.
Active(s) == [k \in {x \in DOMAIN s : s[x].count > 0} |-> s[k]]

\* C26: a mode whose summary has count = 0 shows nowhere: what is displayed is
\* what would be displayed without it, in the three charts, the table, the
\* number of active modes, the average latency and the best throughput.
C26_ZeroCountExcluded ==
  LET without == Display(Active(shown))
  IN /\ display.latency = without.latency
     /\ display.throughput = without.throughput
     /\ display.memory = without.memory
     /\ display.table = without.table
     /\ display.activeModes = without.activeModes
     /\ display.bestThroughput = without.bestThroughput
     /\ display.avgLatency.num * without.avgLatency.den
          = without.avgLatency.num * display.avgLatency.den

\* ------------------------------------------------------------ MetricsTable

\* The speedups the backend may report: none (no baseline data), not a number,
\* not finite, slower, similar and faster.
Speedups == {Num(0), NaN, Infinity, Num(5), Num(10), Num(20)}

\* A ComparisonEntry with the fields MetricsTable reads.
ComparisonEntry(speedup, cost) ==
  [speedup |-> speedup, estimated_cost_per_1m_tokens |-> cost]

ComparisonEntries ==
  {ComparisonEntry(x, Num(30)) : x \in Speedups}
    \cup {[estimated_cost_per_1m_tokens |-> Num(30)]}

\* The modes the backend has a comparison entry for.
ComparisonKeys == {"baseline", "quantized"}

\* The comparison objects the backend may report.
ComparisonObjects ==
  UNION {[ks -> ComparisonEntries] : ks \in SUBSET ComparisonKeys}

\* The summaries the table is shown with: per mode none, one of a mode that
\* has not run, or one of a mode that has.
TableSummaries ==
  UNION {[ks -> {ModeSummary(0, 0, 0, 0), ModeSummary(2, 10, 5, 40)}] :
           ks \in SUBSET SummaryKeys}

\* App renders with the comparison c.
renderComparison(c) ==
  /\ shownComparison' = c
  /\ table' = Rows(shown, c)
  /\ UNCHANGED <<shown, display, resultModes, cards>>

NextTable ==
  \/ \E s \in TableSummaries : render(s) /\ UNCHANGED besideDisplay
  \/ \E c \in ComparisonObjects : renderComparison(c) /\ UNCHANGED besideDisplay

SpecTable == Init /\ [][NextTable]_vars

\* The row of mode k in the table.
RowOf(k) == {table[i] : i \in {j \in DOMAIN table : table[j].mode = k}}

\* C35: a mode with a summary of count > 0 and no comparison entry has its
\* row, with speedup 0 shown as N/A and cost 0; and a speedup of 0, NaN or an
\* infinity is shown as N/A in every row, never as faster or slower.
C35_UncomparedRow ==
  /\ \A k \in DOMAIN shown :
       shown[k].count > 0 /\ k \in Elements(MODE_KEYS)
         => /\ Cardinality(RowOf(k)) = 1
            /\ k \notin DOMAIN shownComparison
                 => \A row \in RowOf(k) :
                      /\ row.speedup = Num(0)
                      /\ row.cost = Num(0)
                      /\ row.badge = [badge |-> "N/A"]
  /\ \A i \in DOMAIN table :
       /\ table[i].mode \in DOMAIN shownComparison
            /\ "speedup" \in DOMAIN shownComparison[table[i].mode]
            => table[i].speedup = shownComparison[table[i].mode].speedup
       /\ table[i].speedup \in {Num(0), NaN, Infinity, MinusInfinity}
            => table[i].badge = [badge |-> "N/A"]

\* onnx has run and has no comparison entry; baseline and quantized have theirs,
\* one with speedup NaN and one twice as fast.
C35_Witness ==
  /\ "onnx" \in DOMAIN shown
  /\ shown["onnx"].count > 0
  /\ DOMAIN shownComparison = {"baseline", "quantized"}
  /\ Len(table) = 3
  /\ table[1].speedup = NaN
  /\ table[1].badge = [badge |-> "N/A"]
  /\ table[2].badge = [badge |-> "faster", times |-> 20]
  /\ table[3].mode = "onnx"
  /\ table[3].badge = [badge |-> "N/A"]

\* ---------------------------------------------------------- ResultsDisplay

\* How many results ResultsDisplay is given at most.
MaxResults == 3

\* MODE_CONFIGS, with the fields ResultsDisplay reads.
MODE_CONFIGS ==
  <<[key |-> "baseline", label |-> "Baseline", color |-> "#64748B"],
    [key |-> "quantized", label |-> "Quantized", color |-> "#06B6D4"],
    [key |-> "torchscript", label |-> "TorchScript", color |-> "#10B981"],
    [key |-> "onnx", label |-> "ONNX", color |-> "#F59E0B"],
    [key |-> "batched", label |-> "Batched", color |-> "#EC4899"]>>

\* Array.prototype.find with the test m.key === mode: the first element that
\* passes, or undefined.
FindKey(configs, mode) ==
  LET hits == {i \in DOMAIN configs : configs[i].key = mode}
  IN IF hits = {} THEN UNDEFINED
     ELSE configs[CHOOSE i \in hits : \A j \in hits : i <= j]

\* Mutant of getModeConfig: an unknown mode gets the last configuration.
getModeConfig_LastForUnknown(mode) ==
  IF FindKey(MODE_CONFIGS, mode) \in {UNDEFINED, JSNULL}
  THEN MODE_CONFIGS[Len(MODE_CONFIGS)]
  ELSE FindKey(MODE_CONFIGS, mode)

\* getModeConfig(mode): MODE_CONFIGS.find((m) => m.key === mode) ?? MODE_CONFIGS[0]
getModeConfig(mode) ==
  IF FindKey(MODE_CONFIGS, mode) \in {UNDEFINED, JSNULL}
  THEN MODE_CONFIGS[1]
  ELSE FindKey(MODE_CONFIGS, mode)

\* The optimization_mode a response may carry: the five keys, and strings that
\* are no key (another mode, a key in another case, the empty string).
ResponseModes == Elements(MODE_KEYS) \cup {"fp16", "Baseline", ""}

\* The card of one result: cfg.label, and cfg.color of its border and its dot.
Card(mode) ==
  [label |-> getModeConfig(mode).label, color |-> getModeConfig(mode).color]

\* ResultsDisplay renders with one more result, of mode mode.
showResult(mode) ==
  /\ Len(resultModes) < MaxResults
  /\ resultModes' = Append(resultModes, mode)
  /\ cards' = [i \in DOMAIN resultModes' |-> Card(resultModes'[i])]
  /\ UNCHANGED <<shown, display, shownComparison, table>>

\* ResultsDisplay renders with no result (a run has started, or reset): null.
showNone ==
  /\ resultModes' = <<>>
  /\ cards' = <<>>
  /\ UNCHANGED <<shown, display, shownComparison, table>>

NextResults ==
  \/ \E mode \in ResponseModes : showResult(mode) /\ UNCHANGED besideDisplay
  \/ showNone /\ UNCHANGED besideDisplay

SpecResults == Init /\ [][NextResults]_vars

\* C36: getModeConfig is total: every result has its card; the card of a result
\* whose mode is one of the five keys has the label and color of the
\* configuration with that key, and the card of any other has those of Baseline.
C36_UnknownModeIsBaseline ==
  /\ DOMAIN cards = DOMAIN resultModes
  /\ \A i \in DOMAIN cards :
       LET known == {k \in DOMAIN MODE_CONFIGS :
                       MODE_CONFIGS[k].key = resultModes[i]}
       IN /\ Cardinality(known) <= 1
          /\ \A k \in known :
               /\ cards[i].label = MODE_CONFIGS[k].label
               /\ cards[i].color = MODE_CONFIGS[k].color
          /\ known = {} =>
               /\ cards[i].label = "Baseline"
               /\ cards[i].color = "#64748B"

\* Three results are shown: one of onnx, and two of modes that are no key.
C36_Witness ==
  /\ resultModes = <<"onnx", "fp16", "Baseline">>
  /\ cards[1].label = "ONNX"
  /\ cards[2].label = "Baseline"
  /\ cards[3].color = "#64748B"

\* --------------------------------------------- useMetrics and the backend

\* seq with v put in, in ascending order.
Insert(seq, v) ==
  LET below == SelectSeq(seq, LAMBDA x : x <= v)
      above == SelectSeq(seq, LAMBDA x : x > v)
  IN below \o <<v>> \o above

\* seq without its i-th element.
Remove(seq, i) == SubSeq(seq, 1, i - 1) \o SubSeq(seq, i + 1, Len(seq))

\* The backend counts an inference: its total only grows.
inference ==
  /\ backend < MaxVersion
  /\ backend' = backend + 1
  /\ UNCHANGED <<streamed, responses, metricsVars>>

\* The backend serves one of the waiting GET /metrics requests: the response
\* carries the total of this moment.
serve ==
  /\ Len(responses) < fetching
  /\ responses' = Insert(responses, backend)
  /\ UNCHANGED <<backend, streamed, metricsVars>>

\* A served response reaches fetchMetrics, whichever was served first.
deliver(i) ==
  /\ FetchOk(MetricsResponse(responses[i]))
  /\ responses' = Remove(responses, i)
  /\ UNCHANGED <<backend, streamed>>

\* A request that was not served fails.
fail(err) ==
  /\ Len(responses) < fetching
  /\ FetchFail(err)
  /\ UNCHANGED backendVars

\* The stream delivers a frame with n new samples: frames arrive in the order
\* they were sent, so with a total v not older than the last one's.
stream(n, v) ==
  /\ streamed <= v
  /\ v <= backend
  /\ Len(arrived) + n <= MaxSamples
  /\ onmessage(Json(SSEData(NewBatch(n), v)))
  /\ streamed' = v
  /\ UNCHANGED <<backend, responses>>

\* useMetrics against a backend whose total grows: snapshot responses and
\* stream frames reach the hook in any order.
NextBackend ==
  \/ inference /\ UNCHANGED besideBackend
  \/ serve /\ UNCHANGED besideBackend
  \/ \E i \in DOMAIN responses : deliver(i) /\ UNCHANGED besideBackend
  \/ \E err \in Errors : fail(err) /\ UNCHANGED besideBackend
  \/ \E n \in 0..MaxSamples, v \in Versions :
       stream(n, v) /\ UNCHANGED besideBackend
  \/ fetchMetrics /\ UNCHANGED <<backendVars, besideBackend>>

SpecBackend == Init /\ [][NextBackend]_vars

\* C28: the stored aggregates never go back to an older backend state: no step
\* lowers totalInferences, and none replaces summaries by older ones.
C28_NoRegression ==
  [][/\ totalInferences' >= totalInferences
     /\ summaries'.summaries_of >= summaries.summaries_of]_vars

\* ------------------------------------------- useMetrics: handlers and renders

\* How many events the hook handles.
MaxEvents == 4

\* A setState call of the handler of event ev.
Update(cell, ev) == [cell |-> cell, ev |-> ev]

\* Mutant of MessageUpdates: the window is updated in a later task, after an
\* await.
MessageUpdates_WindowLater(ev) ==
  <<Update("summaries", ev), Update("totalInferences", ev)>>

\* The setState calls es.onmessage makes for a valid frame, one after the other
\* with no await between them.
MessageUpdates(ev) ==
  <<Update("summaries", ev), Update("totalInferences", ev),
    Update("recentPoints", ev)>>

\* The setState calls of fetchMetrics after `await getMetrics()` resolves.
FetchedUpdates(ev) ==
  <<Update("summaries", ev), Update("comparison", ev),
    Update("totalInferences", ev), Update("error", ev)>>

\* The setState call of the catch block of fetchMetrics.
FetchFailedUpdates(ev) == <<Update("error", ev)>>

EventKinds == {"message", "fetched", "fetchFailed"}

Updates(kind, ev) ==
  IF kind = "message" THEN MessageUpdates(ev)
  ELSE IF kind = "fetched" THEN FetchedUpdates(ev)
  ELSE FetchFailedUpdates(ev)

\* One task of the event loop runs the handler of an event of the given kind:
\* its setState calls are queued.
dispatch(kind) ==
  /\ Len(kinds) < MaxEvents
  /\ kinds' = Append(kinds, kind)
  /\ queue' = queue \o Updates(kind, Len(kinds) + 1)
  /\ UNCHANGED cells

\* The cells c after the queued updates q, applied in order.
RECURSIVE ApplyAll(_, _)
ApplyAll(c, q) ==
  IF q = <<>> THEN c
  ELSE ApplyAll([c EXCEPT ![Head(q).cell] = Head(q).ev], Tail(q))

\* Mutant of commit: a render after each setState call.
commit_EachUpdate ==
  /\ queue # <<>>
  /\ cells' = ApplyAll(cells, <<Head(queue)>>)
  /\ queue' = Tail(queue)
  /\ UNCHANGED kinds

\* React renders: every queued update is applied, and the result is shown.
commit ==
  /\ queue # <<>>
  /\ cells' = ApplyAll(cells, queue)
  /\ queue' = <<>>
  /\ UNCHANGED kinds

NextRender ==
  \/ \E kind \in EventKinds : dispatch(kind) /\ UNCHANGED besideRender
  \/ commit /\ UNCHANGED besideRender

SpecRender == Init /\ [][NextRender]_vars

\* C23: what is rendered holds whole updates only: summaries and
\* totalInferences come from the same event; when that event is a stream message
\* the window comes from it too; when it is a fetch the comparison comes from
\* it, and the error from it or from a later fetch.
C23_WholeUpdates ==
  LET k == cells.summaries
  IN /\ cells.totalInferences = k
     /\ cells.recentPoints <= k
     /\ cells.comparison <= k
     /\ cells.comparison # 0 => kinds[cells.comparison] = "fetched"
     /\ cells.recentPoints # 0 => kinds[cells.recentPoints] = "message"
     /\ (k # 0 /\ kinds[k] = "message") => cells.recentPoints = k
     /\ (k # 0 /\ kinds[k] = "fetched")
          => (cells.comparison = k /\ cells.error >= k)

\* A render has shown a stream message's update next to the comparison of an
\* earlier fetch.
C23_Witness ==
  /\ queue = <<>>
  /\ cells.summaries # 0
  /\ kinds[cells.summaries] = "message"
  /\ cells.recentPoints = cells.summaries
  /\ cells.comparison # 0
  /\ cells.comparison < cells.summaries

\* ------------------------------------------ claims: the orchestrator, again

\* C31: loading = true implies error = null, under any interleaving of run,
\* reset and responses.
C31_NoErrorWhileLoading == state.loading => state.error = NoError

\* A run has started over the error of the run before it, which is gone.
C31_Witness ==
  /\ lastOp = "run"
  /\ prev.error
  /\ state.loading
  /\ state.error = NoError

\* The body a run() call with the locals rec sends for the mode at position k.
BodyOf(rec, k) ==
  [text |-> rec.text,
   optimization_mode |-> rec.modes[k],
   model_size |-> rec.modelSize,
   max_new_tokens |-> rec.maxNewTokens]

\* What run() was called with.
ArgsOf(rec) == <<rec.text, rec.modes, rec.modelSize, rec.maxNewTokens>>

\* The requests sent, and the requests answered, in a step.
Sent == outstanding' \ outstanding
Answered == outstanding \ outstanding'

\* C32: the requests of one run are its mode list in order, cut after the first
\* failing mode: each step sends at most one request; a call's first request is
\* for position 1 and each later one is sent when the one before it resolved,
\* for the next position; nothing is sent after a rejection; and every request
\* carries the text, modelSize and maxNewTokens of its call and the mode of its
\* position.
C32_RequestsInOrder ==
  /\ [](\A q \in outstanding :
          /\ runs[q.run].pc = "await"
          /\ q.idx = runs[q.run].i
          /\ q.idx \in 1..Len(runs[q.run].modes)
          /\ RequestBody(q) = BodyOf(runs[q.run], q.idx)
          /\ \A p \in outstanding : p.run = q.run => p = q)
  /\ [][/\ Cardinality(Sent) <= 1
        /\ Cardinality(Answered) <= 1
        /\ \A q \in Sent :
             IF \E p \in Answered : p.run = q.run
             THEN /\ lastOp' = "resolved"
                  /\ \A p \in Answered : q.idx = p.idx + 1
                  /\ ArgsOf(runs'[q.run]) = ArgsOf(runs[q.run])
             ELSE /\ lastOp' = "run"
                  /\ q.idx = 1
                  /\ q.run = latest'
                  /\ \A p \in outstanding : p.run # q.run
        /\ \A p \in Answered :
             /\ lastOp' = "rejected" => Sent = {}
             /\ lastOp' = "resolved" /\ p.idx < Len(runs[p.run].modes)
                  => \E q \in Sent : q.run = p.run
             /\ Sent = {} => runs'[p.run].pc # "await"]_vars

\* The second request of a run called with gpt2-medium and 50 tokens is in
\* flight, and the request of another run has just been rejected.
C32_Witness ==
  /\ lastOp = "rejected"
  /\ \E q \in outstanding :
       /\ q.idx = 2
       /\ q.model_size = "gpt2-medium"
       /\ q.max_new_tokens = 50
       /\ q.optimization_mode = runs[q.run].modes[2]

\* The responses the run() call in slot r has pushed onto its collected list
\* when it holds n of them: the responses to its requests 1..n, in order.
CollectedBy(r, n, rs) ==
  /\ Len(rs) = n
  /\ \A k \in 1..n : rs[k].req = <<r, k>>

\* C33: the published results never mix two runs: results is empty, or it is
\* the list of the responses one run has collected (and equal to that run's
\* collected list as long as the run is known), also when runs overlap.
C33_OneRunPublished ==
  \/ state.results = <<>>
  \/ \E r \in Slots :
       /\ CollectedBy(r, Len(state.results), state.results)
       /\ runs[r].pc # "free" => state.results = runs[r].collected

\* Two responses of an earlier run are published while the latest run waits
\* for its first response.
C33_Witness ==
  /\ Len(state.results) = 2
  /\ state.results[1].req[1] # latest
  /\ runs[latest].pc = "await"
  /\ runs[latest].collected = <<>>
  /\ lastOp = "resolved"

====
